---- MODULE Spec2Model ----
(***************************************************************************)
(* A model of fishhook (src/fishhook.c): the rebinding registry, the       *)
(* Mach-O image walker, the section rewriter and the integration with the  *)
(* dynamic loader's add-image callback.                                    *)
(*                                                                         *)
(* C strings are sequences of one-character strings (the terminating NUL   *)
(* is implicit), pointers are strings naming the object pointed to, and an *)
(* image's data is an array of pointer-sized words.                        *)
(***************************************************************************)
EXTENDS Integers, Sequences, FiniteSets, TLC

(* ------------------------------------------------------------------ *)
(* Bounds of the model                                                  *)
(* ------------------------------------------------------------------ *)

\* the number of batches rebind_symbols may link before the model stops it
MaxBatches == 3

\* the number of images the loader may have mapped in the runs that load
\* the images the walker skips
MaxLoaded == 3

(* ------------------------------------------------------------------ *)
(* Program constants                                                    *)
(* ------------------------------------------------------------------ *)

NULL == "NULL"

\* A uint32_t is kept as its two 16-bit halves <<high, low>>: the indirect
\* symbol table's flag values do not fit the checker's integers.
U32(hi, lo) == <<hi, lo>>

\* an index into the symbol table (below 2^16 in every image modelled)
Idx(k) == U32(0, k)

\* <mach-o/loader.h>: 0x80000000 and 0x40000000, used at fishhook.c:134-135
INDIRECT_SYMBOL_LOCAL == U32(32768, 0)
INDIRECT_SYMBOL_ABS == U32(16384, 0)
\* the two flags occupy different bits, so their bitwise or is their sum
INDIRECT_SYMBOL_LOCAL_ABS ==
    U32(INDIRECT_SYMBOL_LOCAL[1] + INDIRECT_SYMBOL_ABS[1],
        INDIRECT_SYMBOL_LOCAL[2] + INDIRECT_SYMBOL_ABS[2])

\* sizeof(void *) on an __LP64__ build
sizeof_ptr == 8

SEG_DATA == "__DATA"
SEG_DATA_CONST == "__DATA_CONST"
SEG_LINKEDIT == "__LINKEDIT"
SEG_TEXT == "__TEXT"

\* kernel-side protection bits (vm_prot_t) and mprotect-side bits
VM_PROT_READ == "VM_PROT_READ"
VM_PROT_WRITE == "VM_PROT_WRITE"
VM_PROT_EXECUTE == "VM_PROT_EXECUTE"
PROT_READ == "PROT_READ"
PROT_WRITE == "PROT_WRITE"
PROT_EXEC == "PROT_EXEC"

(* ------------------------------------------------------------------ *)
(* The environment: the images the loader can map                       *)
(* ------------------------------------------------------------------ *)

\* symbol names as the string table stores them
sym_f == <<"_", "f">>
sym_g == <<"_", "g">>
\* a name that extends _f, a name of one byte, and a name the assembler
\* emitted without the C underscore (as dyld_stub_binder is)
sym_fg == <<"_", "f", "g">>
sym_underscore == <<"_">>
sym_xh == <<"x", "h">>

\* names as callers register them
name_f == <<"f">>
name_g == <<"g">>
name_fg == <<"f", "g">>
name_h == <<"h">>
name_none == <<"n", "o">>
name_empty == <<>>

Seg(segname, sects) ==
    [cmd |-> "LC_SEGMENT", segname |-> segname, sects |-> sects, nindirectsyms |-> 0]

Symtab ==
    [cmd |-> "LC_SYMTAB", segname |-> "", sects |-> <<>>, nindirectsyms |-> 0]

Dysymtab(n) ==
    [cmd |-> "LC_DYSYMTAB", segname |-> "", sects |-> <<>>, nindirectsyms |-> n]

\* a section_t: addr is the index of its first word in the image's data
\* (slide already added), size is in bytes, reserved1 is its first entry
\* in the indirect symbol table (0-based, as in the file)
Sect(segname, type, addr, size, reserved1) ==
    [segname |-> segname, type |-> type, addr |-> addr, size |-> size,
     reserved1 |-> reserved1]

RO == {VM_PROT_READ}
RW == {VM_PROT_READ, VM_PROT_WRITE}
RX == {VM_PROT_READ, VM_PROT_EXECUTE}

\* The main executable: a lazy pointer section in __DATA, a non-lazy one in
\* __DATA_CONST holding an import and a local (sentinel) entry, a plain data
\* section, a pointer-typed section in a segment the walker does not scan,
\* and a non-lazy section in __DATA (words 6-10) holding the two other
\* sentinel entries and the imports _fg, _ and xh.
ImageMain ==
    [named |-> TRUE,
     cmds |-> << Seg(SEG_TEXT, << Sect(SEG_TEXT, "S_NON_LAZY_SYMBOL_POINTERS", 1, 8, 0) >>),
                 Seg(SEG_DATA, << Sect(SEG_DATA, "S_LAZY_SYMBOL_POINTERS", 2, 8, 1),
                                  Sect(SEG_DATA, "S_REGULAR", 3, 8, 0),
                                  Sect(SEG_DATA, "S_NON_LAZY_SYMBOL_POINTERS", 6, 40, 4) >>),
                 Seg(SEG_DATA_CONST,
                     << Sect(SEG_DATA_CONST, "S_NON_LAZY_SYMBOL_POINTERS", 4, 16, 2) >>),
                 Seg(SEG_LINKEDIT, <<>>),
                 Symtab,
                 Dysymtab(9) >>,
     symtab |-> << sym_f, sym_g, sym_fg, sym_underscore, sym_xh >>,
     indirect_symtab |-> << Idx(0), Idx(0), Idx(1), INDIRECT_SYMBOL_LOCAL,
                            INDIRECT_SYMBOL_ABS, INDIRECT_SYMBOL_LOCAL_ABS,
                            Idx(2), Idx(3), Idx(4) >>,
     mem |-> << "real_f", "real_f", "data", "real_g", "local_h",
                "abs_a", "local_b", "real_fg", "real_u", "real_xh" >>,
     prot |-> << RX, RW, RW, RO, RO, RW, RW, RW, RW, RW >>]

\* A library whose only import is a lazy pointer in __DATA
ImageLib ==
    [named |-> TRUE,
     cmds |-> << Seg(SEG_LINKEDIT, <<>>),
                 Symtab,
                 Dysymtab(1),
                 Seg(SEG_DATA, << Sect(SEG_DATA, "S_LAZY_SYMBOL_POINTERS", 1, 8, 0) >>) >>,
     symtab |-> << sym_f >>,
     indirect_symtab |-> << Idx(0) >>,
     mem |-> << "real_f" >>,
     prot |-> << RW >>]

ImageIds == {"main", "lib"}

\* An image the walker has to skip: its one pointer section, read-only in
\* __DATA_CONST, imports f, but the image has no name for dladdr or lacks one
\* of the load commands the walker needs.
SkippedImage(named, cmds, indirect_symtab) ==
    [named |-> named,
     cmds |-> cmds \o << Seg(SEG_DATA_CONST,
                             << Sect(SEG_DATA_CONST, "S_NON_LAZY_SYMBOL_POINTERS", 1, 8, 0) >>) >>,
     symtab |-> << sym_f >>,
     indirect_symtab |-> indirect_symtab,
     mem |-> << "real_f" >>,
     prot |-> << RO >>]

SkippedIds == {"anon", "nolinkedit", "nosymtab", "nodysymtab", "noindirect"}

Image(h) ==
    CASE h = "main" -> ImageMain
      [] h = "lib" -> ImageLib
      [] h = "anon" ->
             SkippedImage(FALSE, << Seg(SEG_LINKEDIT, <<>>), Symtab, Dysymtab(1) >>, << Idx(0) >>)
      [] h = "nolinkedit" ->
             SkippedImage(TRUE, << Symtab, Dysymtab(1) >>, << Idx(0) >>)
      [] h = "nosymtab" ->
             SkippedImage(TRUE, << Seg(SEG_LINKEDIT, <<>>), Dysymtab(1) >>, << Idx(0) >>)
      [] h = "nodysymtab" ->
             SkippedImage(TRUE, << Seg(SEG_LINKEDIT, <<>>), Symtab >>, << Idx(0) >>)
      [] h = "noindirect" ->
             SkippedImage(TRUE, << Seg(SEG_LINKEDIT, <<>>), Symtab, Dysymtab(0) >>, <<>>)

\* every image the loader can map
AllImageIds == ImageIds \cup SkippedIds

\* what callers pass: replacement functions and the variables that receive
\* the previously bound address
Replaced == {"o1", "o2", "o3"}

Rb(name, replacement, replaced) ==
    [name |-> name, replacement |-> replacement, replaced |-> replaced]

\* the rebindings[] arrays this model's callers pass
BatchInputs ==
    { << Rb(name_f, "A", "o1") >>,
      << Rb(name_f, "B", "o2") >>,
      << Rb(name_g, "A", NULL), Rb(name_f, "B", "o1") >> }

\* the rebindings[] arrays passed to rebind_symbols_image
LocalInputs ==
    { << Rb(name_f, "B", "o2") >> }

\* rebindings[] arrays that exercise the matching loop: a name twice in one
\* batch, a first match without original_slot, a batch for g alone, names
\* no image imports (one of them empty), and the name that follows the first
\* byte of the symbol xh
WalkInputs ==
    { << Rb(name_f, "A", "o1"), Rb(name_f, "B", "o2") >>,
      << Rb(name_f, "B", NULL), Rb(name_f, "A", "o1") >>,
      << Rb(name_g, "B", "o2") >>,
      << Rb(name_none, "X", "o3"), Rb(name_empty, "X", "o3") >>,
      << Rb(name_h, "Y", NULL) >> }

\* outcomes of the two malloc calls of prepend_rebindings
AllocOutcomes == {"ok", "fail_node", "fail_vec"}

\* what vm_region can report for the region at or after address 0
\* (an unmapped page zero, or no region: the VM_PROT_READ fallback)
NullProtections == {{}, RO}

(* ------------------------------------------------------------------ *)
(* State                                                                *)
(* ------------------------------------------------------------------ *)

VARIABLES
    _rebindings_head,   \* the global registry, head first (next = the rest)
    loaded,             \* dyld's image list, in index order
    mem,                \* mem[h][a]: the word at index a of image h's data
    prot,               \* prot[h][a]: the kernel protection of that word's page
    orig,               \* orig[p]: the caller's variable a `replaced` pointer p names
    callbacks,          \* how many add-image callbacks dyld holds
    last,               \* the last entry point that ran: its arguments, result and trace
    writer              \* a rebind_symbols call that runs statement by statement

vars == <<_rebindings_head, loaded, mem, prot, orig, callbacks, last, writer>>

\* one step of an entry point's trace
Ev(ev, h, addr, old, new, replaced, origv, p) ==
    [ev |-> ev, h |-> h, addr |-> addr, old |-> old, new |-> new,
     replaced |-> replaced, origv |-> origv, prot |-> p]

\* the memory an entry point works on, and the trace it leaves
Machine == [mem |-> mem, prot |-> prot, orig |-> orig, log |-> <<>>]

Logged(m, e) == [m EXCEPT !.log = Append(@, e)]

Range(s) == {s[k] : k \in DOMAIN s}

(* ------------------------------------------------------------------ *)
(* prepend_rebindings                                                   *)
(* ------------------------------------------------------------------ *)

\* memcpy(new_entry->rebindings, rebindings, sizeof(struct rebinding) * nel)
memcpy(rebindings, nel) == SubSeq(rebindings, 1, nel)

\* a prepend that links the node before the entry vector is allocated
prepend_rebindings_EarlyLink(rebindings_head, rebindings, nel, alloc) ==
    IF alloc = "fail_node"
    THEN [ret |-> -1, head |-> rebindings_head]
    ELSE IF alloc = "fail_vec"
    THEN [ret |-> -1,
          head |-> << [rebindings |-> <<>>, rebindings_nel |-> 0] >> \o rebindings_head]
    ELSE [ret |-> 0,
          head |-> << [rebindings |-> memcpy(rebindings, nel),
                       rebindings_nel |-> nel] >> \o rebindings_head]

prepend_rebindings(rebindings_head, rebindings, nel, alloc) ==
    IF alloc = "fail_node"
    THEN [ret |-> -1, head |-> rebindings_head]
    ELSE IF alloc = "fail_vec"
    THEN [ret |-> -1, head |-> rebindings_head]
    ELSE [ret |-> 0,
          head |-> << [rebindings |-> memcpy(rebindings, nel),
                       rebindings_nel |-> nel] >> \o rebindings_head]

(* ------------------------------------------------------------------ *)
(* get_protection, mprotect                                             *)
(* ------------------------------------------------------------------ *)

\* malloc'ed memory is readable and writable
HeapProtection == RW

\* vm_region on the address of the registry's head node
get_protection(sectionStart, nullProt) ==
    IF sectionStart = <<>> THEN nullProt ELSE HeapProtection

\* the kernel bits an mprotect argument sets
KernelBits(p) ==
    (IF PROT_READ \in p THEN {VM_PROT_READ} ELSE {})
    \cup (IF PROT_WRITE \in p THEN {VM_PROT_WRITE} ELSE {})
    \cup (IF PROT_EXEC \in p THEN {VM_PROT_EXECUTE} ELSE {})

WordsOf(size) == (size + sizeof_ptr - 1) \div sizeof_ptr

mprotect(m, h, addr, size, p) ==
    LET range == addr .. (addr + WordsOf(size) - 1)
        set == [m EXCEPT !.prot[h] =
                   [a \in DOMAIN @ |-> IF a \in range THEN KernelBits(p) ELSE @[a]]]
    IN Logged(set, Ev("mprotect", h, addr, NULL, NULL, NULL, NULL, KernelBits(p)))

\* fishhook.c:162-171
RestoredProtection(oldProtection) ==
    (IF VM_PROT_READ \in oldProtection THEN {PROT_READ} ELSE {})
    \cup (IF VM_PROT_WRITE \in oldProtection THEN {PROT_WRITE} ELSE {})
    \cup (IF VM_PROT_EXECUTE \in oldProtection THEN {PROT_EXEC} ELSE {})

(* ------------------------------------------------------------------ *)
(* perform_rebinding_with_section                                       *)
(* ------------------------------------------------------------------ *)

strcmp(a, b) == IF a = b THEN 0 ELSE 1

\* symbol_name[0] && symbol_name[1]
symbol_name_longer_than_1(symbol_name) == Len(symbol_name) >= 2

NoMatch == [found |-> FALSE, entry |-> 0, j |-> 0, rb |-> Rb(<<>>, NULL, NULL)]

\* a loop without the goto: the last matching rebinding of the node wins
RECURSIVE MatchInEntry_LastWins(_, _, _, _)
MatchInEntry_LastWins(cur, depth, j, symbol_name) ==
    IF ~(j < cur.rebindings_nel)
    THEN NoMatch
    ELSE LET later == MatchInEntry_LastWins(cur, depth, j + 1, symbol_name)
         IN IF later.found
            THEN later
            ELSE IF symbol_name_longer_than_1(symbol_name)
                    /\ strcmp(Tail(symbol_name), cur.rebindings[j + 1].name) = 0
            THEN [found |-> TRUE, entry |-> depth, j |-> j, rb |-> cur.rebindings[j + 1]]
            ELSE NoMatch

\* a loop that takes strcmp's result for a truth value: it matches the
\* first rebinding whose name differs from the symbol's
RECURSIVE MatchInEntry_Truthy(_, _, _, _)
MatchInEntry_Truthy(cur, depth, j, symbol_name) ==
    IF ~(j < cur.rebindings_nel)
    THEN NoMatch
    ELSE IF symbol_name_longer_than_1(symbol_name)
            /\ strcmp(Tail(symbol_name), cur.rebindings[j + 1].name) # 0
    THEN [found |-> TRUE, entry |-> depth, j |-> j, rb |-> cur.rebindings[j + 1]]
    ELSE MatchInEntry_Truthy(cur, depth, j + 1, symbol_name)

\* the for (j) loop of one registry node, from index j (0-based)
RECURSIVE MatchInEntry(_, _, _, _)
MatchInEntry(cur, depth, j, symbol_name) ==
    IF ~(j < cur.rebindings_nel)
    THEN NoMatch
    ELSE IF symbol_name_longer_than_1(symbol_name)
            /\ strcmp(Tail(symbol_name), cur.rebindings[j + 1].name) = 0
    THEN [found |-> TRUE, entry |-> depth, j |-> j, rb |-> cur.rebindings[j + 1]]
    ELSE MatchInEntry(cur, depth, j + 1, symbol_name)

\* the while (cur) loop: the first rebinding whose name matches
RECURSIVE MatchInList(_, _, _)

\* a walk that prefers the oldest batch: the tail is searched before the head
MatchInList_TailFirst(cur, depth, symbol_name) ==
    IF cur = <<>>
    THEN NoMatch
    ELSE LET later == MatchInList(Tail(cur), depth + 1, symbol_name)
         IN IF later.found THEN later ELSE MatchInEntry(Head(cur), depth, 0, symbol_name)

MatchInList(cur, depth, symbol_name) ==
    IF cur = <<>>
    THEN NoMatch
    ELSE LET hit == MatchInEntry(Head(cur), depth, 0, symbol_name)
         IN IF hit.found THEN hit ELSE MatchInList(Tail(cur), depth + 1, symbol_name)

\* a rewrite whose slot store sits inside the test for an original_slot
RewriteSlot_OnlyWithSlot(m, h, a, rb) ==
    LET old == m.mem[h][a]
        captured ==
            IF rb.replaced # NULL /\ old # rb.replacement
            THEN Logged([m EXCEPT !.orig[rb.replaced] = old],
                        Ev("capture", h, a, old, NULL, rb.replaced, old, {}))
            ELSE m
    IN IF rb.replaced # NULL
       THEN Logged([captured EXCEPT !.mem[h][a] = rb.replacement],
                   Ev("rebind", h, a, old, rb.replacement, rb.replaced,
                      captured.orig[rb.replaced], {}))
       ELSE captured

\* a rewrite that overwrites the slot before it stores the old binding
RewriteSlot_WriteFirst(m, h, a, rb) ==
    LET old == m.mem[h][a]
        written == [m EXCEPT !.mem[h][a] = rb.replacement]
        captured ==
            IF rb.replaced # NULL /\ old # rb.replacement
            THEN Logged([written EXCEPT !.orig[rb.replaced] = written.mem[h][a]],
                        Ev("capture", h, a, old, NULL, rb.replaced, written.mem[h][a], {}))
            ELSE written
    IN Logged(captured,
              Ev("rebind", h, a, old, captured.mem[h][a], rb.replaced,
                 IF rb.replaced = NULL THEN NULL ELSE captured.orig[rb.replaced], {}))

\* a rewrite that stores the old binding even when the slot already holds
\* the replacement
RewriteSlot_AlwaysCapture(m, h, a, rb) ==
    LET old == m.mem[h][a]
        captured ==
            IF rb.replaced # NULL
            THEN Logged([m EXCEPT !.orig[rb.replaced] = old],
                        Ev("capture", h, a, old, NULL, rb.replaced, old, {}))
            ELSE m
        written == [captured EXCEPT !.mem[h][a] = rb.replacement]
    IN Logged(written,
              Ev("rebind", h, a, old, written.mem[h][a], rb.replaced,
                 IF rb.replaced = NULL THEN NULL ELSE written.orig[rb.replaced], {}))

\* fishhook.c:149-153: capture the old binding, then overwrite the slot
RewriteSlot(m, h, a, rb) ==
    LET old == m.mem[h][a]
        captured ==
            IF rb.replaced # NULL /\ old # rb.replacement
            THEN Logged([m EXCEPT !.orig[rb.replaced] = old],
                        Ev("capture", h, a, old, NULL, rb.replaced, old, {}))
            ELSE m
        written == [captured EXCEPT !.mem[h][a] = rb.replacement]
    IN Logged(written,
              Ev("rebind", h, a, old, written.mem[h][a], rb.replaced,
                 IF rb.replaced = NULL THEN NULL ELSE written.orig[rb.replaced], {}))

\* a test that forgets the entries carrying both flags
IsSentinel_NoLocalAbs(symtab_index) ==
    \/ symtab_index = INDIRECT_SYMBOL_ABS
    \/ symtab_index = INDIRECT_SYMBOL_LOCAL

\* fishhook.c:134-135
IsSentinel(symtab_index) ==
    \/ symtab_index = INDIRECT_SYMBOL_ABS
    \/ symtab_index = INDIRECT_SYMBOL_LOCAL
    \/ symtab_index = INDIRECT_SYMBOL_LOCAL_ABS

\* the for (i) loop over the section's slots, from slot i (0-based)
RECURSIVE RebindSlots(_, _, _, _, _)
RebindSlots(rebindings, h, section, i, m) ==
    IF ~(i < section.size \div sizeof_ptr)
    THEN m
    ELSE LET symtab_index == Image(h).indirect_symtab[section.reserved1 + i + 1]
         IN IF IsSentinel(symtab_index)
            THEN RebindSlots(rebindings, h, section, i + 1, m)
            ELSE LET symbol_name == Image(h).symtab[symtab_index[2] + 1]
                     read == Logged(m, Ev("symtab", h, section.addr + i,
                                          NULL, NULL, NULL, NULL, {}))
                     hit == MatchInList(rebindings, 0, symbol_name)
                 IN RebindSlots(rebindings, h, section, i + 1,
                                IF hit.found
                                THEN RewriteSlot(read, h, section.addr + i, hit.rb)
                                ELSE read)

\* a section rewriter that makes the section writable only after its loop
perform_rebinding_with_section_LateOpen(rebindings, h, section, m, nullProt) ==
    LET isDataConst == strcmp(section.segname, SEG_DATA_CONST) = 0
        oldProtection ==
            IF isDataConst THEN get_protection(rebindings, nullProt) ELSE {VM_PROT_READ}
        entered == Logged(m, Ev("section", h, section.addr, NULL, NULL, NULL, NULL,
                                m.prot[h][section.addr]))
        queried == Logged(entered, Ev("get_protection", h, section.addr,
                                      NULL, NULL, NULL, NULL, oldProtection))
        rebound == RebindSlots(rebindings, h, section, 0,
                               IF isDataConst THEN queried ELSE entered)
    IN IF isDataConst
       THEN mprotect(mprotect(rebound, h, section.addr, section.size,
                              {PROT_READ, PROT_WRITE}),
                     h, section.addr, section.size, RestoredProtection(oldProtection))
       ELSE rebound

perform_rebinding_with_section(rebindings, h, section, m, nullProt) ==
    LET isDataConst == strcmp(section.segname, SEG_DATA_CONST) = 0
        oldProtection ==
            IF isDataConst THEN get_protection(rebindings, nullProt) ELSE {VM_PROT_READ}
        entered == Logged(m, Ev("section", h, section.addr, NULL, NULL, NULL, NULL,
                                m.prot[h][section.addr]))
        queried == Logged(entered, Ev("get_protection", h, section.addr,
                                      NULL, NULL, NULL, NULL, oldProtection))
        opened ==
            IF isDataConst
            THEN mprotect(queried, h, section.addr, section.size, {PROT_READ, PROT_WRITE})
            ELSE entered
        rebound == RebindSlots(rebindings, h, section, 0, opened)
    IN IF isDataConst
       THEN mprotect(rebound, h, section.addr, section.size,
                     RestoredProtection(oldProtection))
       ELSE rebound

(* ------------------------------------------------------------------ *)
(* rebind_symbols_for_image                                             *)
(* ------------------------------------------------------------------ *)

\* dladdr(header, &info)
dladdr(h) == IF Image(h).named THEN 1 ELSE 0

\* what the first pass looks for in a load command
IsWanted(c, want) ==
    CASE want = "linkedit_segment" ->
             c.cmd = "LC_SEGMENT" /\ strcmp(c.segname, SEG_LINKEDIT) = 0
      [] want = "symtab_cmd" -> c.cmd = "LC_SYMTAB"
      [] want = "dysymtab_cmd" -> c.cmd = "LC_DYSYMTAB"

\* the first pass keeps the last load command wanted; 0 is NULL
RECURSIVE LastCmd(_, _, _, _)
LastCmd(cmds, i, found, want) ==
    IF ~(i < Len(cmds))
    THEN found
    ELSE LastCmd(cmds, i + 1, IF IsWanted(cmds[i + 1], want) THEN i + 1 ELSE found, want)

\* the for (j) loop over the sections of one segment command, from section j
RECURSIVE RebindSections(_, _, _, _, _, _)
RebindSections(rebindings, h, sects, j, m, nullProt) ==
    IF ~(j < Len(sects))
    THEN m
    ELSE LET sect == sects[j + 1]
             isPointers == \/ sect.type = "S_LAZY_SYMBOL_POINTERS"
                           \/ sect.type = "S_NON_LAZY_SYMBOL_POINTERS"
         IN RebindSections(rebindings, h, sects, j + 1,
                           IF isPointers
                           THEN perform_rebinding_with_section(rebindings, h, sect, m, nullProt)
                           ELSE m,
                           nullProt)

\* a second pass that hands the sections of every segment to the rewriter
RECURSIVE RebindSegments_AnySegment(_, _, _, _, _)
RebindSegments_AnySegment(rebindings, h, i, m, nullProt) ==
    IF ~(i < Len(Image(h).cmds))
    THEN m
    ELSE LET cur_seg_cmd == Image(h).cmds[i + 1]
         IN RebindSegments_AnySegment(rebindings, h, i + 1,
                IF cur_seg_cmd.cmd = "LC_SEGMENT"
                THEN RebindSections(rebindings, h, cur_seg_cmd.sects, 0, m, nullProt)
                ELSE m,
                nullProt)

\* the second pass over the load commands, from command i
RECURSIVE RebindSegments(_, _, _, _, _)
RebindSegments(rebindings, h, i, m, nullProt) ==
    IF ~(i < Len(Image(h).cmds))
    THEN m
    ELSE LET cur_seg_cmd == Image(h).cmds[i + 1]
             scanned == /\ cur_seg_cmd.cmd = "LC_SEGMENT"
                        /\ ~(strcmp(cur_seg_cmd.segname, SEG_DATA) # 0
                             /\ strcmp(cur_seg_cmd.segname, SEG_DATA_CONST) # 0)
         IN RebindSegments(rebindings, h, i + 1,
                           IF scanned
                           THEN RebindSections(rebindings, h, cur_seg_cmd.sects, 0, m, nullProt)
                           ELSE m,
                           nullProt)

\* a walker that does not ask dladdr whether the image has a name
rebind_symbols_for_image_NoDladdr(rebindings, h, m, nullProt) ==
    LET entered == Logged(m, Ev("walk", h, NULL, NULL, NULL, NULL, NULL, {}))
        cmds == Image(h).cmds
        linkedit_segment == LastCmd(cmds, 0, 0, "linkedit_segment")
        symtab_cmd == LastCmd(cmds, 0, 0, "symtab_cmd")
        dysymtab_cmd == LastCmd(cmds, 0, 0, "dysymtab_cmd")
    IN IF \/ symtab_cmd = 0 \/ dysymtab_cmd = 0 \/ linkedit_segment = 0
          \/ cmds[dysymtab_cmd].nindirectsyms = 0
       THEN entered
       ELSE RebindSegments(rebindings, h, 0, entered, nullProt)

rebind_symbols_for_image(rebindings, h, m, nullProt) ==
    LET entered == Logged(m, Ev("walk", h, NULL, NULL, NULL, NULL, NULL, {}))
        cmds == Image(h).cmds
        linkedit_segment == LastCmd(cmds, 0, 0, "linkedit_segment")
        symtab_cmd == LastCmd(cmds, 0, 0, "symtab_cmd")
        dysymtab_cmd == LastCmd(cmds, 0, 0, "dysymtab_cmd")
    IN IF dladdr(h) = 0
       THEN entered
       ELSE IF \/ symtab_cmd = 0 \/ dysymtab_cmd = 0 \/ linkedit_segment = 0
               \/ cmds[dysymtab_cmd].nindirectsyms = 0
       THEN entered
       ELSE RebindSegments(rebindings, h, 0, entered, nullProt)

\* a callback that keeps the registry it was installed with: the oldest batch
_rebind_symbols_for_image_Stale(head, h, m) ==
    rebind_symbols_for_image(SubSeq(head, Len(head), Len(head)), h, m, {VM_PROT_READ})

\* the add-image callback: it reads the global head when it runs
_rebind_symbols_for_image(head, h, m) ==
    rebind_symbols_for_image(head, h, m, {VM_PROT_READ})

\* the callback on each image of hs, in order
RECURSIVE CallbackOnEach(_, _, _, _)
CallbackOnEach(head, hs, i, m) ==
    IF ~(i < Len(hs))
    THEN m
    ELSE CallbackOnEach(head, hs, i + 1, _rebind_symbols_for_image(head, hs[i + 1], m))

\* _dyld_register_func_for_add_image: dyld keeps the callback and calls it
\* at once for every image already loaded
_dyld_register_func_for_add_image(head, m) ==
    CallbackOnEach(head, loaded, 0,
                   Logged(m, Ev("register", NULL, NULL, NULL, NULL, NULL, NULL, {})))

(* ------------------------------------------------------------------ *)
(* prepend_rebindings, one statement at a time                          *)
(* ------------------------------------------------------------------ *)

\* what an uninitialised next pointer leads to, and a node fresh from malloc:
\* count, vector and link are whatever the block held
WildNode == [rebindings |-> <<>>, rebindings_nel |-> -1]

FreshEntry == [rebindings |-> <<>>, rebindings_nel |-> -1, next |-> << WildNode >>]

\* no call in progress
Idle ==
    [pc |-> "idle", rebindings |-> <<>>, alloc |-> "ok", new_entry |-> FreshEntry,
     before |-> <<>>]

\* an order of the statements in which the node is linked as soon as its
\* vector is allocated
NextStatement_LinkFirst(pc) ==
    CASE pc = "77" -> "81"
      [] pc = "81" -> "89"
      [] pc = "89" -> "86"
      [] pc = "86" -> "87"
      [] pc = "87" -> "88"
      [] pc = "88" -> "90"

\* the statement after the one at line pc of fishhook.c, when it does not
\* return
NextStatement(pc) ==
    CASE pc = "77" -> "81"
      [] pc = "81" -> "86"
      [] pc = "86" -> "87"
      [] pc = "87" -> "88"
      [] pc = "88" -> "89"
      [] pc = "89" -> "90"

\* the writer after the statement at w.pc, and the list head it leaves
Statement(w, head) ==
    LET moved == [w EXCEPT !.pc = NextStatement(w.pc)]
        returned == [w EXCEPT !.pc = "return -1"]
    IN CASE w.pc = "77" ->
                [w |-> IF w.alloc = "fail_node"
                       THEN returned
                       ELSE [moved EXCEPT !.new_entry = FreshEntry],
                 head |-> head]
         [] w.pc = "81" ->
                [w |-> IF w.alloc = "fail_vec" THEN returned ELSE moved,
                 head |-> head]
         [] w.pc = "86" ->
                [w |-> [moved EXCEPT !.new_entry.rebindings =
                                        memcpy(w.rebindings, Len(w.rebindings))],
                 head |-> head]
         [] w.pc = "87" ->
                [w |-> [moved EXCEPT !.new_entry.rebindings_nel = Len(w.rebindings)],
                 head |-> head]
         [] w.pc = "88" ->
                [w |-> [moved EXCEPT !.new_entry.next = head],
                 head |-> head]
         [] w.pc = "89" ->
                [w |-> moved,
                 head |-> << [rebindings |-> w.new_entry.rebindings,
                              rebindings_nel |-> w.new_entry.rebindings_nel] >>
                          \o w.new_entry.next]

(* ------------------------------------------------------------------ *)
(* Entry points                                                         *)
(* ------------------------------------------------------------------ *)

Ran(op, h, rebindings, alloc, ret, log) ==
    [op |-> op, h |-> h, rebindings |-> rebindings, alloc |-> alloc,
     ret |-> ret, log |-> log]

Commit(m) ==
    /\ mem' = m.mem
    /\ prot' = m.prot
    /\ orig' = m.orig

\* a rebind_symbols that installs the callback on every call
AfterPrepend_AlwaysRegister(head, m) ==
    _dyld_register_func_for_add_image(head, m)

\* a rebind_symbols whose later calls leave the loaded images alone
AfterPrepend_NoRewalk(head, m) ==
    IF Len(head) = 1
    THEN _dyld_register_func_for_add_image(head, m)
    ELSE m

\* a rebind_symbols whose later calls walk the images with the new batch only
AfterPrepend_NewBatchOnly(head, m) ==
    IF Len(head) = 1
    THEN _dyld_register_func_for_add_image(head, m)
    ELSE CallbackOnEach(SubSeq(head, 1, 1), loaded, 0, m)

\* what rebind_symbols does after a successful prepend (fishhook.c:276-285)
AfterPrepend(head, m) ==
    IF Len(head) = 1
    THEN _dyld_register_func_for_add_image(head, m)
    ELSE CallbackOnEach(head, loaded, 0, m)

Registered(log) == Cardinality({k \in DOMAIN log : log[k].ev = "register"})

\* int rebind_symbols(struct rebinding rebindings[], size_t rebindings_nel)
rebind_symbols(rebindings, alloc) ==
    LET pre == prepend_rebindings(_rebindings_head, rebindings, Len(rebindings), alloc)
        m == IF pre.ret < 0 THEN Machine ELSE AfterPrepend(pre.head, Machine)
    IN /\ Len(_rebindings_head) < MaxBatches
       /\ _rebindings_head' = pre.head
       /\ Commit(m)
       /\ callbacks' = callbacks + Registered(m.log)
       /\ UNCHANGED <<loaded, writer>>
       /\ last' = Ran("rebind_symbols", NULL, rebindings, alloc, pre.ret, m.log)

\* a rebind_symbols_image that prepends to the global list
rebind_symbols_image_Global(header, rebindings, alloc, nullProt) ==
    LET pre == prepend_rebindings(_rebindings_head, rebindings, Len(rebindings), alloc)
        m == rebind_symbols_for_image(pre.head, header, Machine, nullProt)
    IN /\ header \in Range(loaded)
       /\ Commit(m)
       /\ _rebindings_head' = pre.head
       /\ UNCHANGED <<loaded, callbacks, writer>>
       /\ last' = Ran("rebind_symbols_image", header, rebindings, alloc, pre.ret, m.log)

\* int rebind_symbols_image(void *header, intptr_t slide, rebindings[], nel)
rebind_symbols_image(header, rebindings, alloc, nullProt) ==
    LET pre == prepend_rebindings(<<>>, rebindings, Len(rebindings), alloc)
        m == rebind_symbols_for_image(pre.head, header, Machine, nullProt)
    IN /\ header \in Range(loaded)
       /\ Commit(m)
       /\ UNCHANGED <<_rebindings_head, loaded, callbacks, writer>>
       /\ last' = Ran("rebind_symbols_image", header, rebindings, alloc, pre.ret, m.log)

\* dyld maps a new image and runs every add-image callback it holds on it
dyld_add_image(h) ==
    LET m == IF callbacks > 0
             THEN _rebind_symbols_for_image(_rebindings_head, h, Machine)
             ELSE Machine
    IN /\ h \notin Range(loaded)
       /\ loaded' = Append(loaded, h)
       /\ Commit(m)
       /\ UNCHANGED <<_rebindings_head, callbacks, writer>>
       /\ last' = Ran("dyld_add_image", h, <<>>, "ok", 0, m.log)

\* dyld runs the callback again on an image it has already announced
dyld_notify_again(h) ==
    LET m == _rebind_symbols_for_image(_rebindings_head, h, Machine)
    IN /\ h \in Range(loaded)
       /\ callbacks > 0
       /\ Commit(m)
       /\ UNCHANGED <<_rebindings_head, loaded, callbacks, writer>>
       /\ last' = Ran("_rebind_symbols_for_image", h, <<>>, "ok", 0, m.log)

\* a registry whose newest node points at the caller's array instead of a
\* copy: what the caller stores there afterwards is what the node holds
StoreToCallerArray_Shared(head, rebindings) ==
    IF head = <<>>
    THEN head
    ELSE << [Head(head) EXCEPT !.rebindings = rebindings] >> \o Tail(head)

\* what a store into the array the caller passed does to the registry: every
\* node's vector is a block of its own, allocated at fishhook.c:81 and filled
\* by the memcpy at fishhook.c:86, so the store reaches no node
StoreToCallerArray(head, rebindings) == head

\* after rebind_symbols or rebind_symbols_image has returned, the caller
\* reuses (or frees) the array it passed: the array now holds `rebindings`
caller_overwrites_array(rebindings) ==
    /\ last.op \in {"rebind_symbols", "rebind_symbols_image"}
    /\ Len(rebindings) = Len(last.rebindings)
    /\ rebindings # last.rebindings
    /\ _rebindings_head' = StoreToCallerArray(_rebindings_head, rebindings)
    /\ UNCHANGED <<loaded, mem, prot, orig, callbacks, writer>>
    /\ last' = Ran("caller_overwrites_array", NULL, rebindings, "ok", 0, <<>>)

\* a thread enters rebind_symbols and prepend_rebindings
rebind_symbols_enter(rebindings, alloc) ==
    /\ writer.pc = "idle"
    /\ Len(_rebindings_head) < MaxBatches
    /\ writer' = [Idle EXCEPT !.pc = "77", !.rebindings = rebindings, !.alloc = alloc,
                               !.before = _rebindings_head]
    /\ UNCHANGED <<_rebindings_head, loaded, mem, prot, orig, callbacks>>
    /\ last' = Ran("rebind_symbols_enter", NULL, rebindings, alloc, 0, <<>>)

\* it runs one statement of prepend_rebindings
prepend_rebindings_statement ==
    LET after == Statement(writer, _rebindings_head)
    IN /\ writer.pc \in {"77", "81", "86", "87", "88", "89"}
       /\ writer' = after.w
       /\ _rebindings_head' = after.head
       /\ UNCHANGED <<loaded, mem, prot, orig, callbacks, last>>

\* prepend_rebindings has returned: the rest of rebind_symbols
rebind_symbols_rest ==
    LET m == IF writer.pc = "90" THEN AfterPrepend(_rebindings_head, Machine) ELSE Machine
    IN /\ writer.pc \in {"90", "return -1"}
       /\ writer' = Idle
       /\ Commit(m)
       /\ callbacks' = callbacks + Registered(m.log)
       /\ UNCHANGED <<_rebindings_head, loaded>>
       /\ last' = Ran("rebind_symbols", NULL, writer.rebindings, writer.alloc,
                      IF writer.pc = "90" THEN 0 ELSE -1, m.log)

Init ==
    /\ _rebindings_head = <<>>
    /\ loaded = << "main" >>
    /\ mem = [h \in AllImageIds |-> Image(h).mem]
    /\ prot = [h \in AllImageIds |-> Image(h).prot]
    /\ orig = [p \in Replaced |-> NULL]
    /\ callbacks = 0
    /\ last = Ran("none", NULL, <<>>, "ok", 0, <<>>)
    /\ writer = Idle

RegisterGlobal == \E b \in BatchInputs, alloc \in AllocOutcomes : rebind_symbols(b, alloc)

RegisterLocal ==
    \E h \in ImageIds, b \in LocalInputs, alloc \in AllocOutcomes :
        \E p \in (IF alloc = "ok" THEN {RO} ELSE NullProtections) :
            rebind_symbols_image(h, b, alloc, p)

LoadImage == \E h \in ImageIds : dyld_add_image(h)

AddImageCallback == \E h \in ImageIds : dyld_notify_again(h)

Next == RegisterGlobal \/ RegisterLocal \/ LoadImage \/ AddImageCallback

Spec == Init /\ [][Next]_vars

\* the runs that use the global registry only
NextGlobal == RegisterGlobal \/ LoadImage \/ AddImageCallback

SpecGlobal == Init /\ [][NextGlobal]_vars

\* the runs in which every allocation succeeds and callers pass WalkInputs
RegisterWalk == \E b \in WalkInputs : rebind_symbols(b, "ok")

OverrideLocal ==
    \E h \in ImageIds, b \in LocalInputs : rebind_symbols_image(h, b, "ok", RO)

NextWalk == RegisterWalk \/ OverrideLocal \/ LoadImage \/ AddImageCallback

SpecWalk == Init /\ [][NextWalk]_vars

\* the runs in which the loader maps images the walker skips, at most
\* MaxLoaded images in all
LoadSkipped == \E h \in SkippedIds : Len(loaded) < MaxLoaded /\ dyld_add_image(h)

NotifySkipped == \E h \in SkippedIds : dyld_notify_again(h)

OverrideSkipped ==
    \E h \in SkippedIds, b \in LocalInputs : rebind_symbols_image(h, b, "ok", RO)

RegisterForSkipped == \E b \in LocalInputs : rebind_symbols(b, "ok")

NextSkip == RegisterForSkipped \/ LoadSkipped \/ NotifySkipped \/ OverrideSkipped

SpecSkip == Init /\ [][NextSkip]_vars

\* the runs in which one thread registers statement by statement while the
\* loader, on another, maps images and runs the add-image callback
EnterRegistration ==
    \E b \in BatchInputs, alloc \in AllocOutcomes : rebind_symbols_enter(b, alloc)

NextInterleaved ==
    \/ EnterRegistration
    \/ prepend_rebindings_statement
    \/ rebind_symbols_rest
    \/ LoadImage
    \/ AddImageCallback

SpecInterleaved == Init /\ [][NextInterleaved]_vars

\* what is left in an array the caller has reused: one or two rebindings of
\* another symbol
Scribbles ==
    { << Rb(name_h, "Y", NULL) >>,
      << Rb(name_h, "Y", NULL), Rb(name_h, "Y", NULL) >> }

CallerReusesArray == \E b \in Scribbles : caller_overwrites_array(b)

\* the runs in which callers also reuse the arrays they have passed
NextRegistry ==
    RegisterGlobal \/ OverrideLocal \/ LoadImage \/ AddImageCallback \/ CallerReusesArray

SpecRegistry == Init /\ [][NextRegistry]_vars

(* ------------------------------------------------------------------ *)
(* What the image format says about an image, stated directly           *)
(* ------------------------------------------------------------------ *)

\* the image has a name and the three load commands the walker needs
Walkable(h) ==
    /\ Image(h).named
    /\ \E c \in Range(Image(h).cmds) : c.cmd = "LC_SEGMENT" /\ c.segname = SEG_LINKEDIT
    /\ \E c \in Range(Image(h).cmds) : c.cmd = "LC_SYMTAB"
    /\ \E c \in Range(Image(h).cmds) : c.cmd = "LC_DYSYMTAB" /\ c.nindirectsyms # 0

\* the symbol-pointer sections of the image's __DATA and __DATA_CONST segments
PointerSections(h) ==
    { sect \in UNION { Range(c.sects) :
                       c \in { c \in Range(Image(h).cmds) :
                                 /\ c.cmd = "LC_SEGMENT"
                                 /\ c.segname \in {SEG_DATA, SEG_DATA_CONST} } } :
        sect.type \in {"S_LAZY_SYMBOL_POINTERS", "S_NON_LAZY_SYMBOL_POINTERS"} }

\* the words of a section
WordsIn(sect) == sect.addr .. (sect.addr + sect.size \div sizeof_ptr - 1)

\* the indirect symbol table entry of the pointer slot at word a of sect
IndirectEntry(h, sect, a) == Image(h).indirect_symtab[sect.reserved1 + (a - sect.addr) + 1]

\* the pointer slots of h that import the symbol registered as `name`
SlotsBoundTo(h, name) ==
    IF ~Walkable(h)
    THEN {}
    ELSE UNION { { a \in WordsIn(sect) :
                     /\ IndirectEntry(h, sect, a) \notin
                            {INDIRECT_SYMBOL_LOCAL, INDIRECT_SYMBOL_ABS,
                             INDIRECT_SYMBOL_LOCAL_ABS}
                     /\ Image(h).symtab[IndirectEntry(h, sect, a)[2] + 1] = <<"_">> \o name } :
                 sect \in PointerSections(h) }

\* the same, over the images dyld has loaded: pairs <<image, word>>
ImportSlots(name) ==
    UNION { { <<h, a>> : a \in SlotsBoundTo(h, name) } : h \in Range(loaded) }

\* the address the loader bound a slot to
LoaderBound(s) == Image(s[1]).mem[s[2]]

\* every rebinding of a registry, head first
RECURSIVE Flatten(_)
Flatten(head) ==
    IF head = <<>> THEN <<>> ELSE Head(head).rebindings \o Flatten(Tail(head))

\* no rebinding of the registry writes through the pointer p
Unused(p, head) == \A k \in DOMAIN Flatten(head) : Flatten(head)[k].replaced # p

\* the rebindings callers pass alone in a batch
Singles == { b[1] : b \in { x \in BatchInputs : Len(x) = 1 } }

RanGlobal(l, b) == l.op = "rebind_symbols" /\ l.ret = 0 /\ l.rebindings = b

Sentinels == {INDIRECT_SYMBOL_LOCAL, INDIRECT_SYMBOL_ABS, INDIRECT_SYMBOL_LOCAL_ABS}

\* the pointer section of h that holds word a
SectionOf(h, a) == CHOOSE sect \in PointerSections(h) : a \in WordsIn(sect)

\* the pointer slots of h a walk looks up in the symbol table, and the ones
\* whose indirect symbol table entry is a sentinel
NonSentinelSlots(h) ==
    IF ~Walkable(h)
    THEN {}
    ELSE UNION { { a \in WordsIn(sect) : IndirectEntry(h, sect, a) \notin Sentinels } :
                 sect \in PointerSections(h) }

SentinelSlots(h) ==
    UNION { { a \in WordsIn(sect) : IndirectEntry(h, sect, a) \in Sentinels } :
            sect \in PointerSections(h) }

\* the string-table name of the symbol a non-sentinel slot imports
SlotSymbol(h, a) == Image(h).symtab[IndirectEntry(h, SectionOf(h, a), a)[2] + 1]

\* fishhook.c:140,146-147: the stored name has two bytes or more and the
\* registered name equals what follows its first byte
Follows(symbol_name, name) ==
    /\ Len(symbol_name) >= 2
    /\ name = SubSeq(symbol_name, 2, Len(symbol_name))

\* the positions of the registry, read head to tail, whose name the code
\* matches with symbol_name, and the rebinding at the first of them
Candidates(head, symbol_name) ==
    { k \in DOMAIN Flatten(head) : Follows(symbol_name, Flatten(head)[k].name) }

FirstCandidate(head, symbol_name) ==
    Flatten(head)[CHOOSE k \in Candidates(head, symbol_name) :
                      \A j \in Candidates(head, symbol_name) : k <= j]

\* the steps of a trace of the given kind that concern word a of image h
EventsAt(log, ev, h, a) ==
    { k \in DOMAIN log : log[k].ev = ev /\ log[k].h = h /\ log[k].addr = a }

(* ------------------------------------------------------------------ *)
(* C1: later batch wins                                                 *)
(* ------------------------------------------------------------------ *)

\* every loaded import slot of rA's symbol holds rA's replacement, and rA's
\* original_slot holds the one address the loader had bound them all to
C1_Hooked(rA) ==
    /\ ImportSlots(rA.name) # {}
    /\ \A s \in ImportSlots(rA.name) :
          /\ mem[s[1]][s[2]] = rA.replacement
          /\ orig[rA.replaced] = LoaderBound(s)
          /\ rA.replacement # LoaderBound(s)

\* the step rebind_symbols([rA]) from a state whose import slots of rA's
\* symbol all hold the loader-bound address
C1_First(rA) ==
    /\ RanGlobal(last', <<rA>>)
    /\ rA.replaced # NULL
    /\ Unused(rA.replaced, _rebindings_head)
    /\ ImportSlots(rA.name) # {}
    /\ \A s, t \in ImportSlots(rA.name) :
          /\ mem[s[1]][s[2]] = LoaderBound(s)
          /\ LoaderBound(s) = LoaderBound(t)
          /\ rA.replacement # LoaderBound(s)

\* the step rebind_symbols([rB]) taken right after rebind_symbols([rA])
C1_Second(rA, rB) ==
    /\ RanGlobal(last, <<rA>>)
    /\ rA.replaced # NULL
    /\ Unused(rA.replaced, Tail(_rebindings_head))
    /\ C1_Hooked(rA)
    /\ RanGlobal(last', <<rB>>)
    /\ rB.name = rA.name
    /\ rB.replacement # rA.replacement
    /\ rB.replaced \notin {NULL, rA.replaced}
    /\ Unused(rB.replaced, _rebindings_head)

\* C1. Later batch wins: when rebind_symbols([{S, A, &origA}]) runs in a state
\* where every import slot of S (the non-sentinel slots the image format
\* binds to S in the pointer sections of the loaded images) holds the
\* loader-bound address REAL, and rebind_symbols([{S, B, &origB}]) runs next,
\* then every such slot holds B, origB = A and origA = REAL.  (A, B and REAL
\* differ, and origA, origB are two variables no other rebinding writes.)
C1_LaterBatchWins ==
    [][\A rA, rB \in Singles :
          /\ C1_First(rA) => C1_Hooked(rA)'
          /\ C1_Second(rA, rB) =>
                /\ \A s \in ImportSlots(rB.name) :
                      /\ mem'[s[1]][s[2]] = rB.replacement
                      /\ orig'[rA.replaced] = LoaderBound(s)
                /\ orig'[rB.replaced] = rA.replacement]_vars

\* both images loaded, A registered and then B: the slots hold B, origB = A
\* and origA is the loader-bound address
C1_Witness ==
    /\ loaded = << "main", "lib" >>
    /\ Len(_rebindings_head) = 2
    /\ RanGlobal(last, << Rb(name_f, "B", "o2") >>)
    /\ _rebindings_head[1].rebindings = << Rb(name_f, "B", "o2") >>
    /\ _rebindings_head[2].rebindings = << Rb(name_f, "A", "o1") >>
    /\ ImportSlots(name_f) = { <<"main", 2>>, <<"lib", 1>> }
    /\ \A s \in ImportSlots(name_f) : mem[s[1]][s[2]] = "B"
    /\ orig["o2"] = "A"
    /\ orig["o1"] = "real_f"

(* ------------------------------------------------------------------ *)
(* C2: chain capture                                                    *)
(* ------------------------------------------------------------------ *)

\* the slot rewrites of the last entry point that used a rebinding with an
\* original_slot on a slot that did not yet hold its replacement
C2_Captures ==
    { k \in DOMAIN last.log :
        /\ last.log[k].ev = "rebind"
        /\ last.log[k].replaced # NULL
        /\ last.log[k].old # last.log[k].new }

\* C2. Chain capture: whenever a walk rewrites a slot with a rebinding whose
\* original_slot is non-null, and the slot did not already hold the
\* replacement, *original_slot equals, right after the rewrite, the value the
\* slot held right before it.
C2_ChainCapture ==
    \A k \in C2_Captures : last.log[k].origv = last.log[k].old

\* a walk replaced A by B in a slot and stored A through B's original_slot
C2_Witness ==
    \E k \in C2_Captures :
        /\ last.log[k].old = "A"
        /\ last.log[k].new = "B"
        /\ last.log[k].replaced = "o2"
        /\ last.log[k].origv = "A"

(* ------------------------------------------------------------------ *)
(* C3: protection restoration                                           *)
(* ------------------------------------------------------------------ *)

\* the pointer section of h that starts at word addr
SectionAt(h, addr) == CHOOSE sect \in PointerSections(h) : sect.addr = addr

\* the __DATA_CONST pointer sections a trace handed to the section rewriter
ConstSectionsIn(log) ==
    { k \in DOMAIN log :
        /\ log[k].ev = "section"
        /\ SectionAt(log[k].h, log[k].addr).segname = SEG_DATA_CONST }

\* C3. Protection restoration: for every pointer section in __DATA_CONST, the
\* protection of the section's words after perform_rebinding_with_section
\* returns equals their protection right before the rewrite began.
C3_ProtectionRestored ==
    [][\A k \in ConstSectionsIn(last'.log) :
          \A a \in WordsIn(SectionAt(last'.log[k].h, last'.log[k].addr)) :
              prot'[last'.log[k].h][a] = prot[last'.log[k].h][a]]_vars

(* ------------------------------------------------------------------ *)
(* C4: no self-capture                                                  *)
(* ------------------------------------------------------------------ *)

\* no registered rebinding's original_slot holds that rebinding's replacement
NoSelfCapture ==
    \A k \in DOMAIN Flatten(_rebindings_head) :
        LET r == Flatten(_rebindings_head)[k]
        IN r.replaced # NULL => orig[r.replaced] # r.replacement

\* a rewrite that found slot == replacement wrote no original_slot: every
\* capture in the trace belongs to a rewrite that changed the slot
NoCaptureOnEqual ==
    \A k \in DOMAIN last.log :
        last.log[k].ev = "capture" =>
            /\ k + 1 \in DOMAIN last.log
            /\ last.log[k + 1].ev = "rebind"
            /\ last.log[k + 1].old # last.log[k + 1].new

\* no two registered rebindings write different replacements' old bindings
\* through one original_slot
NoSharedOriginalSlot ==
    \A j, k \in DOMAIN Flatten(_rebindings_head) :
        LET r == Flatten(_rebindings_head)[j]
            q == Flatten(_rebindings_head)[k]
        IN (r.replaced # NULL /\ r.replaced = q.replaced) => r.replacement = q.replacement

\* C4 as claimed. No self-capture: after any sequence of rebind_symbols calls
\* and add-image callbacks, no rebinding's original_slot holds that same
\* rebinding's replacement, and a walk that finds slot == replacement writes
\* no original_slot.
C4_NoSelfCapture == NoSelfCapture /\ NoCaptureOnEqual

\* C4 as amended. The same, for registries in which no original_slot is
\* shared by two rebindings with different replacements.
C4_NoSelfCaptureUnshared ==
    NoCaptureOnEqual /\ (NoSharedOriginalSlot => NoSelfCapture)

\* the same rebinding registered twice: the second walk found the slots
\* holding A already and left origA at the loader-bound address
C4_Witness ==
    /\ Len(_rebindings_head) = 2
    /\ _rebindings_head[1].rebindings = << Rb(name_f, "A", "o1") >>
    /\ _rebindings_head[2].rebindings = << Rb(name_f, "A", "o1") >>
    /\ RanGlobal(last, << Rb(name_f, "A", "o1") >>)
    /\ \E k \in DOMAIN last.log :
          /\ last.log[k].ev = "rebind"
          /\ last.log[k].old = "A"
          /\ last.log[k].new = "A"
          /\ last.log[k].replaced = "o1"
    /\ orig["o1"] = "real_f"

(* ------------------------------------------------------------------ *)
(* C5: chaining reaches the real function                               *)
(* ------------------------------------------------------------------ *)

\* every registered rebinding has an original_slot of its own: replacement
\* functions and original_slots correspond one to one
OwnOriginalSlots ==
    \A j, k \in DOMAIN Flatten(_rebindings_head) :
        LET r == Flatten(_rebindings_head)[j]
            q == Flatten(_rebindings_head)[k]
        IN /\ r.replaced # NULL
           /\ (r.replaced = q.replaced) <=> (r.replacement = q.replacement)

\* the original_slots of the replacement function v
OriginalSlotsOf(v) ==
    { Flatten(_rebindings_head)[k].replaced : k \in
        { k \in DOMAIN Flatten(_rebindings_head) :
            Flatten(_rebindings_head)[k].replacement = v } }

\* following replacement -> *original_slot from v reaches `real` without
\* passing a replacement in `seen` again
RECURSIVE ReachesReal(_, _, _)
ReachesReal(v, real, seen) ==
    IF v = real
    THEN TRUE
    ELSE IF v \in seen \/ OriginalSlotsOf(v) = {}
    THEN FALSE
    ELSE \A p \in OriginalSlotsOf(v) : ReachesReal(orig[p], real, seen \cup {v})

\* the names the registry rebinds
RegisteredNames ==
    { Flatten(_rebindings_head)[k].name : k \in DOMAIN Flatten(_rebindings_head) }

\* C5. Chaining reaches the real function exactly once: when every rebinding
\* has its own original_slot, following replacement -> *original_slot from
\* the value of a patched slot reaches the slot's loader-bound address
\* without visiting a replacement twice.
C5_ChainReachesReal ==
    OwnOriginalSlots =>
        \A name \in RegisteredNames : \A s \in ImportSlots(name) :
            ReachesReal(mem[s[1]][s[2]], LoaderBound(s), {})

(* ------------------------------------------------------------------ *)
(* C6: new images stay in sync                                          *)
(* ------------------------------------------------------------------ *)

\* the positions of the registry, read head to tail, that rebind `name`
Matching(head, name) == { k \in DOMAIN Flatten(head) : Flatten(head)[k].name = name }

\* the head-most rebinding of `name`
HeadMost(head, name) ==
    Flatten(head)[CHOOSE k \in Matching(head, name) :
                      \A j \in Matching(head, name) : k <= j]

\* C6. New images stay in sync: once rebind_symbols has linked a batch, the
\* callback is installed, and every image loaded afterwards has, when its
\* add-image callback returns, each import slot of each registered symbol set
\* to the head-most matching replacement of the registry as it is then; no
\* linked batch is missed.
C6_NewImagesInSync ==
    [][/\ _rebindings_head # <<>> => callbacks > 0
       /\ (last'.op = "dyld_add_image" /\ _rebindings_head # <<>>) =>
             \A name \in RegisteredNames :
                 \A a \in SlotsBoundTo(last'.h, name) :
                     mem'[last'.h][a] = HeadMost(_rebindings_head, name).replacement]_vars

\* the library is loaded after A and then B were registered for f: its slot
\* holds B, the replacement of the newer batch
C6_Witness ==
    /\ last.op = "dyld_add_image"
    /\ last.h = "lib"
    /\ Len(_rebindings_head) = 2
    /\ _rebindings_head[1].rebindings = << Rb(name_f, "B", "o2") >>
    /\ _rebindings_head[2].rebindings = << Rb(name_f, "A", "o1") >>
    /\ SlotsBoundTo("lib", name_f) = {1}
    /\ mem["lib"][1] = "B"

(* ------------------------------------------------------------------ *)
(* C7: rebind_symbols_image is scoped                                   *)
(* ------------------------------------------------------------------ *)

\* every slot rewrite of the trace installs a rebinding of the registry
InstallsOnlyFrom(head, log) ==
    \A k \in DOMAIN log :
        log[k].ev = "rebind" =>
            \E j \in DOMAIN Flatten(head) :
                /\ Flatten(head)[j].replacement = log[k].new
                /\ Flatten(head)[j].replaced = log[k].replaced

\* C7. rebind_symbols_image is scoped: a call on image X leaves the global
\* registry, the slots (and pages) of every other image and the set of
\* installed callbacks unchanged, and its batch is not applied by a later
\* walk: every other entry point installs rebindings of the global registry
\* only.
C7_LocalIsScoped ==
    [][/\ last'.op = "rebind_symbols_image" =>
             /\ _rebindings_head' = _rebindings_head
             /\ callbacks' = callbacks
             /\ loaded' = loaded
             /\ \A h \in ImageIds \ {last'.h} : mem'[h] = mem[h] /\ prot'[h] = prot[h]
       /\ last'.op # "rebind_symbols_image" =>
             InstallsOnlyFrom(_rebindings_head', last'.log)]_vars

\* a local rebinding of f to B in the main image while A is registered
\* globally: the main image's slot holds B, the library's slot still holds A
\* and the global registry is the one batch it was
C7_Witness ==
    /\ last.op = "rebind_symbols_image"
    /\ last.h = "main"
    /\ last.ret = 0
    /\ loaded = << "main", "lib" >>
    /\ Len(_rebindings_head) = 1
    /\ _rebindings_head[1].rebindings = << Rb(name_f, "A", "o1") >>
    /\ callbacks = 1
    /\ mem["main"][2] = "B"
    /\ mem["lib"][1] = "A"

(* ------------------------------------------------------------------ *)
(* C8: a failed allocation in rebind_symbols changes nothing            *)
(* ------------------------------------------------------------------ *)

\* C8. When either allocation of the batch copy fails, rebind_symbols returns
\* a negative value, the registry is as before, no image is walked, no slot,
\* original_slot or page protection changes and no callback is installed.
C8_GlobalAllocFailureClean ==
    [][(last'.op = "rebind_symbols" /\ last'.alloc # "ok") =>
          /\ last'.ret < 0
          /\ _rebindings_head' = _rebindings_head
          /\ last'.log = <<>>
          /\ mem' = mem
          /\ orig' = orig
          /\ prot' = prot
          /\ callbacks' = callbacks]_vars

\* the entry vector could not be allocated in a process that has a batch
\* registered already
C8_Witness ==
    /\ last.op = "rebind_symbols"
    /\ last.alloc = "fail_vec"
    /\ last.ret = -1
    /\ Len(_rebindings_head) = 1
    /\ callbacks = 1

(* ------------------------------------------------------------------ *)
(* C9: a failed allocation in rebind_symbols_image                      *)
(* ------------------------------------------------------------------ *)

\* C9. When the batch copy cannot be allocated, rebind_symbols_image returns
\* a negative value and nothing of the target image has changed: no pointer
\* slot, no original_slot and no page protection of any of its sections.
C9_LocalAllocFailureClean ==
    [][(last'.op = "rebind_symbols_image" /\ last'.alloc # "ok") =>
          /\ last'.ret < 0
          /\ mem' = mem
          /\ orig' = orig
          /\ prot' = prot]_vars

(* ------------------------------------------------------------------ *)
(* C10: the callback is installed exactly once                          *)
(* ------------------------------------------------------------------ *)

\* the images a trace walked, in order
RECURSIVE Walked(_)
Walked(log) ==
    IF log = <<>>
    THEN <<>>
    ELSE (IF Head(log).ev = "walk" THEN << Head(log).h >> ELSE <<>>) \o Walked(Tail(log))

\* C10. The add-image callback is registered with the loader exactly once,
\* during the first successful rebind_symbols; a failing call registers
\* nothing and walks nothing; every later successful call registers no
\* callback and walks each loaded image, in index order, exactly once.
C10_CallbackOnce ==
    /\ callbacks = (IF _rebindings_head = <<>> THEN 0 ELSE 1)
    /\ last.op = "rebind_symbols" =>
          IF last.ret < 0
          THEN Registered(last.log) = 0 /\ Walked(last.log) = <<>>
          ELSE /\ Registered(last.log) = (IF Len(_rebindings_head) = 1 THEN 1 ELSE 0)
               /\ Walked(last.log) = loaded

\* a second successful rebind_symbols with two images loaded: no callback is
\* registered, both images are walked once, and dyld holds one callback
C10_Witness ==
    /\ last.op = "rebind_symbols"
    /\ last.ret = 0
    /\ Len(_rebindings_head) = 2
    /\ Registered(last.log) = 0
    /\ Walked(last.log) = << "main", "lib" >>
    /\ callbacks = 1

(* ------------------------------------------------------------------ *)
(* C11: what a later rebind_symbols applies to the loaded images        *)
(* ------------------------------------------------------------------ *)

\* a successful rebind_symbols that is not the first
LaterRegistration ==
    /\ last'.op = "rebind_symbols"
    /\ last'.ret = 0
    /\ _rebindings_head # <<>>

\* the original_slots of a batch
ReplacedBy(rebindings) ==
    { rebindings[k].replaced : k \in DOMAIN rebindings } \ {NULL}

\* C11 as claimed. Subsequent registrations apply the new batch only: on a
\* rebind_symbols call that is not the first, a slot whose symbol is not named
\* in the new batch is not written, and no original_slot that belongs to an
\* older batch (and not to the new one) is written.
C11_NewBatchOnly ==
    [][LaterRegistration =>
          /\ \A h \in Range(loaded) : \A a \in NonSentinelSlots(h) :
                Candidates(<< [rebindings |-> last'.rebindings] >>, SlotSymbol(h, a)) = {} =>
                    /\ mem'[h][a] = mem[h][a]
                    /\ EventsAt(last'.log, "rebind", h, a) = {}
          /\ \A p \in ReplacedBy(Flatten(_rebindings_head)) \ ReplacedBy(last'.rebindings) :
                orig'[p] = orig[p]]_vars

\* C11 as amended. On a rebind_symbols call that is not the first, every
\* loaded image is walked with the full registry, the new batch first: each
\* scanned slot whose symbol some registered rebinding matches is written
\* once, with the replacement of the head-most match, also when that match
\* belongs to an older batch, whose original_slot then receives the slot's
\* previous value if it differs from the replacement; a slot is left
\* unwritten only when no rebinding of any registered batch matches it.
C11_FullRegistryRewalk ==
    [][LaterRegistration =>
          \A h \in Range(loaded) : \A a \in NonSentinelSlots(h) :
              IF Candidates(_rebindings_head', SlotSymbol(h, a)) = {}
              THEN /\ mem'[h][a] = mem[h][a]
                   /\ EventsAt(last'.log, "rebind", h, a) = {}
                   /\ EventsAt(last'.log, "capture", h, a) = {}
              ELSE LET r == FirstCandidate(_rebindings_head', SlotSymbol(h, a))
                       captures == r.replaced # NULL /\ mem[h][a] # r.replacement
                   IN /\ mem'[h][a] = r.replacement
                      /\ Cardinality(EventsAt(last'.log, "rebind", h, a)) = 1
                      /\ \A k \in EventsAt(last'.log, "rebind", h, a) :
                            /\ last'.log[k].old = mem[h][a]
                            /\ last'.log[k].new = r.replacement
                            /\ last'.log[k].replaced = r.replaced
                      /\ Cardinality(EventsAt(last'.log, "capture", h, a)) =
                            (IF captures THEN 1 ELSE 0)
                      /\ \A k \in EventsAt(last'.log, "capture", h, a) :
                            /\ last'.log[k].replaced = r.replaced
                            /\ last'.log[k].origv = mem[h][a]]_vars

\* f was rebound to A globally and then to B in the main image alone; a later
\* rebind_symbols of g alone set the main image's slot of f back to A and
\* stored B through the older batch's original_slot
C11_Witness ==
    /\ RanGlobal(last, << Rb(name_g, "B", "o2") >>)
    /\ Len(_rebindings_head) = 2
    /\ _rebindings_head[2].rebindings = << Rb(name_f, "A", "o1"), Rb(name_f, "B", "o2") >>
    /\ \E k \in EventsAt(last.log, "capture", "main", 2) :
          /\ last.log[k].old = "B"
          /\ last.log[k].replaced = "o1"
    /\ mem["main"][2] = "A"
    /\ orig["o1"] = "B"

(* ------------------------------------------------------------------ *)
(* C12: sentinel entries are skipped                                    *)
(* ------------------------------------------------------------------ *)

\* C12. Sentinel skip: for every walk and every registry, a pointer slot
\* whose indirect symbol table entry is INDIRECT_SYMBOL_ABS,
\* INDIRECT_SYMBOL_LOCAL or both flags together keeps the value the loader
\* gave it, no walk reads a symbol table entry for it, and no walk writes an
\* original_slot or the slot on its account.
C12_SentinelSkip ==
    \A h \in ImageIds : \A a \in SentinelSlots(h) :
        /\ mem[h][a] = Image(h).mem[a]
        /\ EventsAt(last.log, "symtab", h, a) = {}
        /\ EventsAt(last.log, "capture", h, a) = {}
        /\ EventsAt(last.log, "rebind", h, a) = {}

\* a walk with f and g registered went through both sections of the main
\* image that hold sentinel entries, rewrote the slot of g next to one of
\* them, and the three sentinel slots hold what the loader put there
C12_Witness ==
    /\ SentinelSlots("main") = {5, 6, 7}
    /\ IndirectEntry("main", SectionOf("main", 5), 5) = INDIRECT_SYMBOL_LOCAL
    /\ IndirectEntry("main", SectionOf("main", 6), 6) = INDIRECT_SYMBOL_ABS
    /\ IndirectEntry("main", SectionOf("main", 7), 7) = INDIRECT_SYMBOL_LOCAL_ABS
    /\ EventsAt(last.log, "section", "main", 4) # {}
    /\ EventsAt(last.log, "section", "main", 6) # {}
    /\ EventsAt(last.log, "rebind", "main", 4) # {}
    /\ EventsAt(last.log, "symtab", "main", 8) # {}
    /\ mem["main"][5] = "local_h"
    /\ mem["main"][6] = "abs_a"
    /\ mem["main"][7] = "local_b"

(* ------------------------------------------------------------------ *)
(* C13: name discipline                                                 *)
(* ------------------------------------------------------------------ *)

\* the registry the last entry point searched: rebind_symbols_image builds
\* its own one-node list, every other entry point reads the global head
Searched ==
    IF last.op = "rebind_symbols_image"
    THEN prepend_rebindings(<<>>, last.rebindings, Len(last.rebindings), last.alloc).head
    ELSE _rebindings_head

\* some rebinding of the registry has a non-empty name n, and the stored
\* name is an underscore followed by exactly n
NamedWithUnderscore(head, symbol_name) ==
    \E k \in DOMAIN Flatten(head) :
        /\ Flatten(head)[k].name # <<>>
        /\ symbol_name = <<"_">> \o Flatten(head)[k].name

\* C13. Name discipline: a rebinding with registered name n matches a slot
\* exactly when the slot's string-table name is the leading underscore
\* followed by exactly n (neither a prefix nor an extension of it); the empty
\* registered name matches no slot, and a stored name of fewer than two bytes
\* matches no rebinding.  A match is what makes the walk write the slot, so:
\* every slot a walk looked up was written by that walk exactly when the
\* registry it searched names the slot's symbol, underscore removed.
C13_NameDiscipline ==
    \A k \in DOMAIN last.log :
        last.log[k].ev = "symtab" =>
            (EventsAt(last.log, "rebind", last.log[k].h, last.log[k].addr) # {}
                <=> NamedWithUnderscore(Searched,
                                        SlotSymbol(last.log[k].h, last.log[k].addr)))

(* ------------------------------------------------------------------ *)
(* C14: section selectivity                                             *)
(* ------------------------------------------------------------------ *)

\* the words of h that lie in a symbol-pointer section of __DATA or
\* __DATA_CONST
PointerWords(h) == UNION { WordsIn(sect) : sect \in PointerSections(h) }

\* the image whose walk step k of a trace belongs to
WalkedAt(log, k) ==
    log[CHOOSE w \in 1..k :
            /\ log[w].ev = "walk"
            /\ \A v \in (w + 1)..k : log[v].ev # "walk"].h

\* C14. Section selectivity: a walk writes a memory word only if it is a
\* pointer slot of a section of type S_LAZY_SYMBOL_POINTERS or
\* S_NON_LAZY_SYMBOL_POINTERS inside a segment named __DATA or __DATA_CONST
\* of the walked image; a section of any other type, or in any other
\* segment, is never handed to perform_rebinding_with_section and its words
\* hold what the loader put there.
C14_SectionSelectivity ==
    /\ \A h \in ImageIds : \A a \in DOMAIN mem[h] \ PointerWords(h) :
          mem[h][a] = Image(h).mem[a]
    /\ \A k \in DOMAIN last.log :
          /\ last.log[k].ev = "section" =>
                /\ last.log[k].h = WalkedAt(last.log, k)
                /\ \E sect \in PointerSections(last.log[k].h) :
                       sect.addr = last.log[k].addr
          /\ last.log[k].ev = "rebind" =>
                /\ last.log[k].h = WalkedAt(last.log, k)
                /\ last.log[k].addr \in PointerWords(last.log[k].h)

\* f is registered and the main image was walked: its lazy slot of f was
\* rewritten, while the pointer section of __TEXT that also imports f and the
\* plain data section of __DATA were not handed to the rewriter
C14_Witness ==
    /\ PointerWords("main") = {2, 4, 5, 6, 7, 8, 9, 10}
    /\ Image("main").cmds[1].segname = SEG_TEXT
    /\ Image("main").cmds[1].sects[1].type = "S_NON_LAZY_SYMBOL_POINTERS"
    /\ Image("main").indirect_symtab[1] = Idx(0)
    /\ Image("main").cmds[2].sects[2].type = "S_REGULAR"
    /\ EventsAt(last.log, "rebind", "main", 2) # {}
    /\ EventsAt(last.log, "section", "main", 1) = {}
    /\ EventsAt(last.log, "section", "main", 3) = {}
    /\ mem["main"][2] # "real_f"
    /\ mem["main"][1] = "real_f"
    /\ mem["main"][3] = "data"

(* ------------------------------------------------------------------ *)
(* C15: a name no image imports                                         *)
(* ------------------------------------------------------------------ *)

\* the stored names of the symbols the images the loader has mapped or can
\* map import; no such symbol is one the code matches with `name`
ImportedSymbols ==
    UNION { { SlotSymbol(h, a) : a \in NonSentinelSlots(h) } : h \in ImageIds }

NoSymbol(name) == \A symbol_name \in ImportedSymbols : ~Follows(symbol_name, name)

\* the rebindings of a registry whose name some image imports
Importable(head) ==
    { Flatten(head)[k] : k \in { k \in DOMAIN Flatten(head) : ~NoSymbol(Flatten(head)[k].name) } }

\* C15. Non-existent symbol: rebind_symbols of a batch whose names match no
\* symbol of any loaded or later-loaded image returns 0 (and links the
\* batch); in that call and in every later walk each slot store installs a
\* rebinding whose name some image imports, never one of that batch, and an
\* original_slot that only such unmatched rebindings carry keeps its value.
C15_NonexistentSymbol ==
    [][/\ (/\ last'.op = "rebind_symbols"
            /\ last'.alloc = "ok"
            /\ \A k \in DOMAIN last'.rebindings : NoSymbol(last'.rebindings[k].name)) =>
              /\ last'.ret = 0
              /\ Head(_rebindings_head').rebindings = last'.rebindings
       /\ \A k \in DOMAIN last'.log :
              last'.log[k].ev = "rebind" =>
                  \E r \in Importable(Searched') :
                      /\ r.replacement = last'.log[k].new
                      /\ r.replaced = last'.log[k].replaced
       /\ \A p \in Replaced :
              (\A r \in Importable(Searched') : r.replaced # p) => orig'[p] = orig[p]]_vars

\* the batch of two names no image imports is registered, the library was
\* loaded afterwards and its callback ran: no slot holds X and the batch's
\* original_slot is as the caller initialised it
C15_Witness ==
    /\ \E k \in DOMAIN _rebindings_head :
          _rebindings_head[k].rebindings =
              << Rb(name_none, "X", "o3"), Rb(name_empty, "X", "o3") >>
    /\ NoSymbol(name_none)
    /\ NoSymbol(name_empty)
    /\ last.op = "dyld_add_image"
    /\ last.h = "lib"
    /\ EventsAt(last.log, "symtab", "lib", 1) # {}
    /\ \A h \in ImageIds : \A a \in DOMAIN mem[h] : mem[h][a] # "X"
    /\ orig["o3"] = NULL

(* ------------------------------------------------------------------ *)
(* C16: the registry is append-only and owns its copies                 *)
(* ------------------------------------------------------------------ *)

\* the node prepend_rebindings links for the array the last call was passed
NodeOf(rebindings) ==
    [rebindings |-> rebindings, rebindings_nel |-> Len(rebindings)]

C17_HeadMostMatch ==
    \A name \in RegisteredNames : \A s \in ImportSlots(name) :
        mem[s[1]][s[2]] = HeadMost(_rebindings_head, name).replacement

\* both images were loaded before the third batch, [{f, A, &o1}], was
\* registered over [{g, A, NULL}, {f, B, &o1}] and [{f, B, &o2}]: the slots
\* of f hold A and the slot of g holds A, from the batch in the middle
C17_Witness ==
    /\ loaded = << "main", "lib" >>
    /\ RanGlobal(last, << Rb(name_f, "A", "o1") >>)
    /\ Len(_rebindings_head) = 3
    /\ _rebindings_head[2].rebindings = << Rb(name_g, "A", NULL), Rb(name_f, "B", "o1") >>
    /\ _rebindings_head[3].rebindings = << Rb(name_f, "B", "o2") >>
    /\ ImportSlots(name_f) = { <<"main", 2>>, <<"lib", 1>> }
    /\ ImportSlots(name_g) = { <<"main", 4>> }
    /\ mem["main"][2] = "A"
    /\ mem["lib"][1] = "A"
    /\ mem["main"][4] = "A"
    /\ Walked(last.log) = << "main", "lib" >>

(* ------------------------------------------------------------------ *)
(* C18: the first match inside a batch                                  *)
(* ------------------------------------------------------------------ *)

\* the indices of a batch whose name the code matches with symbol_name
IndicesFor(rebindings, symbol_name) ==
    { j \in DOMAIN rebindings : Follows(symbol_name, rebindings[j].name) }

\* the batches of a registry that hold a rebinding for symbol_name and come
\* before every other batch that does
FirstBatchesFor(head, symbol_name) ==
    { n \in DOMAIN head :
        /\ IndicesFor(head[n].rebindings, symbol_name) # {}
        /\ \A o \in 1..(n - 1) : IndicesFor(head[o].rebindings, symbol_name) = {} }

\* C18. First match wins inside a batch: when the batch a walk applies to a
\* slot holds several rebindings for the slot's symbol, at indices j < k,
\* the walk stores the replacement of the lowest index j in the slot, stores
\* the old value through no original_slot but that of index j, and makes no
\* store for index k; a walk applies at most one rebinding to a slot.
C18_FirstMatchInBatch ==
    \A e \in DOMAIN last.log :
        last.log[e].ev = "symtab" =>
            LET h == last.log[e].h
                a == last.log[e].addr
                rebinds == EventsAt(last.log, "rebind", h, a)
                captures == EventsAt(last.log, "capture", h, a)
            IN /\ Cardinality(rebinds) <= 1
               /\ Cardinality(captures) <= 1
               /\ \A n \in FirstBatchesFor(Searched, SlotSymbol(h, a)) :
                     LET v == Searched[n].rebindings
                         j == CHOOSE j \in IndicesFor(v, SlotSymbol(h, a)) :
                                  \A k \in IndicesFor(v, SlotSymbol(h, a)) : j <= k
                     IN /\ Cardinality(rebinds) = 1
                        /\ \A x \in rebinds :
                              /\ last.log[x].new = v[j].replacement
                              /\ last.log[x].replaced = v[j].replaced
                        /\ \A x \in captures : last.log[x].replaced = v[j].replaced
                        /\ mem[h][a] = v[j].replacement

\* [{f, A, &o1}, {f, B, &o2}] was registered with both images loaded: the
\* slots of f hold A, o1 holds the loader-bound address, and nothing was
\* stored through o2
C18_Witness ==
    /\ RanGlobal(last, << Rb(name_f, "A", "o1"), Rb(name_f, "B", "o2") >>)
    /\ Len(_rebindings_head) = 1
    /\ loaded = << "main", "lib" >>
    /\ IndicesFor(last.rebindings, sym_f) = {1, 2}
    /\ Cardinality(EventsAt(last.log, "rebind", "main", 2)) = 1
    /\ Cardinality(EventsAt(last.log, "rebind", "lib", 1)) = 1
    /\ mem["main"][2] = "A"
    /\ mem["lib"][1] = "A"
    /\ orig["o1"] = "real_f"
    /\ orig["o2"] = NULL

(* ------------------------------------------------------------------ *)
(* C19: a rebinding without original_slot                               *)
(* ------------------------------------------------------------------ *)

\* C19. Null original_slot: when the first rebinding that matches a slot has
\* original_slot == NULL, the walk still stores its replacement in the slot
\* and stores the old value through no original_slot at all: it does not go
\* on to a later matching rebinding to capture it.
C19_NullOriginalSlot ==
    \A e \in DOMAIN last.log :
        (/\ last.log[e].ev = "symtab"
         /\ Candidates(Searched, SlotSymbol(last.log[e].h, last.log[e].addr)) # {}) =>
            LET h == last.log[e].h
                a == last.log[e].addr
                r == FirstCandidate(Searched, SlotSymbol(h, a))
            IN r.replaced = NULL =>
                  /\ mem[h][a] = r.replacement
                  /\ \E x \in EventsAt(last.log, "rebind", h, a) :
                        /\ last.log[x].new = r.replacement
                        /\ last.log[x].replaced = NULL
                  /\ EventsAt(last.log, "capture", h, a) = {}

\* [{f, B, NULL}, {f, A, &o1}] was registered first: the main image's slot of
\* f went from the loader-bound address to B, and o1, the original_slot of
\* the second rebinding of f, was not written
C19_Witness ==
    /\ RanGlobal(last, << Rb(name_f, "B", NULL), Rb(name_f, "A", "o1") >>)
    /\ Len(_rebindings_head) = 1
    /\ \E x \in EventsAt(last.log, "rebind", "main", 2) :
          /\ last.log[x].old = "real_f"
          /\ last.log[x].new = "B"
          /\ last.log[x].replaced = NULL
    /\ mem["main"][2] = "B"
    /\ orig["o1"] = NULL

(* ------------------------------------------------------------------ *)
(* C20: the order of the protection bracket                             *)
(* ------------------------------------------------------------------ *)

\* the last step of the section visit that starts at step k of a trace
VisitEnd(log, k) ==
    CHOOSE e \in k..Len(log) :
        /\ \A v \in (k + 1)..e : log[v].ev \notin {"section", "walk"}
        /\ e = Len(log) \/ log[e + 1].ev \in {"section", "walk"}

\* the steps of the given kind between steps k and e of a trace
StepsOf(log, ev, k, e) == { v \in k..e : log[v].ev = ev }

\* C20. Protection bracket ordering: in each visit of
\* perform_rebinding_with_section to a __DATA_CONST section, on every path,
\* the protection is queried once, the section is set to read|write once,
\* before the first slot store, and the protection derived from the query
\* is set once, after the last slot store: every slot store and
\* original_slot store of the visit lies between the two mprotect calls.  In
\* a visit to a section of any other segment there is no protection query
\* and no mprotect call.
C20_ProtectionBracket ==
    \A k \in DOMAIN last.log :
        last.log[k].ev = "section" =>
            LET log == last.log
                h == log[k].h
                e == VisitEnd(log, k)
            IN IF SectionAt(h, log[k].addr).segname = SEG_DATA_CONST
               THEN /\ e >= k + 3
                    /\ StepsOf(log, "get_protection", k, e) = {k + 1}
                    /\ StepsOf(log, "mprotect", k, e) = {k + 2, e}
                    /\ log[k + 2].h = h /\ log[k + 2].addr = log[k].addr
                    /\ log[k + 2].prot = {VM_PROT_READ, VM_PROT_WRITE}
                    /\ log[e].h = h /\ log[e].addr = log[k].addr
                    /\ log[e].prot = log[k + 1].prot
                    /\ \A v \in StepsOf(log, "rebind", k, e) \cup StepsOf(log, "capture", k, e) :
                          /\ k + 2 < v /\ v < e
                          /\ log[v].h = h
                          /\ log[v].addr \in WordsIn(SectionAt(h, log[k].addr))
               ELSE /\ StepsOf(log, "get_protection", k, e) = {}
                    /\ StepsOf(log, "mprotect", k, e) = {}

\* a walk of the main image with g registered: the visit to its __DATA_CONST
\* section queried the protection, set read|write, stored the replacement
\* in the slot of g and then set the protection again; the visit to the lazy
\* section of __DATA stored into the slot of f without any protection call
C20_Witness ==
    \E k, d \in DOMAIN last.log :
        /\ last.log[k].ev = "section" /\ last.log[k].h = "main" /\ last.log[k].addr = 4
        /\ SectionAt("main", 4).segname = SEG_DATA_CONST
        /\ last.log[k + 1].ev = "get_protection"
        /\ last.log[k + 2].ev = "mprotect"
        /\ StepsOf(last.log, "rebind", k, VisitEnd(last.log, k)) # {}
        /\ last.log[VisitEnd(last.log, k)].ev = "mprotect"
        /\ last.log[d].ev = "section" /\ last.log[d].h = "main" /\ last.log[d].addr = 2
        /\ SectionAt("main", 2).segname = SEG_DATA
        /\ StepsOf(last.log, "rebind", d, VisitEnd(last.log, d)) # {}
        /\ StepsOf(last.log, "mprotect", d, VisitEnd(last.log, d)) = {}

(* ------------------------------------------------------------------ *)
(* C21: images the walker skips                                         *)
(* ------------------------------------------------------------------ *)

\* the entry points that walk one image, and the one that walks them all
WalksOne(l) == l.op \in {"dyld_add_image", "_rebind_symbols_for_image", "rebind_symbols_image"}

\* C21. Skipped images are untouched: a walk of an image that dladdr cannot
\* name, or that lacks the __LINKEDIT segment command, the symtab command or
\* the dysymtab command, or whose dysymtab counts no indirect symbols, does
\* nothing after its checks: no section of the image is visited, none of its
\* words and page protections changes, an entry point that walks only such
\* an image writes no slot, no original_slot and no page protection at all,
\* and rebind_symbols and rebind_symbols_image still return 0 when their
\* allocations succeed.
C21_SkippedImagesUntouched ==
    [][/\ \A h \in AllImageIds :
             ~Walkable(h) =>
                 /\ mem'[h] = mem[h]
                 /\ prot'[h] = prot[h]
                 /\ \A k \in DOMAIN last'.log :
                       last'.log[k].h = h => last'.log[k].ev = "walk"
       /\ (WalksOne(last') /\ ~Walkable(last'.h)) =>
             /\ mem' = mem
             /\ prot' = prot
             /\ orig' = orig
             /\ _rebindings_head' = _rebindings_head
       /\ (last'.op \in {"rebind_symbols", "rebind_symbols_image"} /\ last'.alloc = "ok") =>
             last'.ret = 0]_vars

\* with f registered, the loader mapped the image without a symtab command
\* and the one dladdr cannot name; a rebind_symbols_image of f on the latter
\* returned 0, and the read-only slots of f of both hold the loader-bound
\* address
C21_Witness ==
    /\ loaded = << "main", "nosymtab", "anon" >>
    /\ ~Walkable("nosymtab")
    /\ ~Walkable("anon")
    /\ \E k \in DOMAIN Flatten(_rebindings_head) : Flatten(_rebindings_head)[k].name = name_f
    /\ callbacks = 1
    /\ last.op = "rebind_symbols_image"
    /\ last.h = "anon"
    /\ last.ret = 0
    /\ Walked(last.log) = << "anon" >>
    /\ mem["anon"][1] = "real_f"
    /\ prot["anon"][1] = RO
    /\ mem["nosymtab"][1] = "real_f"
    /\ prot["nosymtab"][1] = RO

(* ------------------------------------------------------------------ *)
(* C22: what a callback sees of a registration in progress              *)
(* ------------------------------------------------------------------ *)

\* the add-image callback ran in this step
CallbackRan(l) == l.op \in {"dyld_add_image", "_rebind_symbols_for_image"}

\* C22. Consistent head under interleaving: when an add-image callback runs
\* between two statements of a rebind_symbols call, the list it reads at
\* _rebindings_head is either the list as it was before the call or that
\* list behind the new node with its vector copied and its count and next
\* set; every node it can reach holds a batch as passed and that batch's
\* count, and the rewrites of its walk install rebindings of that list.
C22_ConsistentHead ==
    [][(CallbackRan(last') /\ writer.pc # "idle") =>
          /\ \/ _rebindings_head = writer.before
             \/ _rebindings_head = << NodeOf(writer.rebindings) >> \o writer.before
          /\ \A n \in DOMAIN _rebindings_head :
                \E b \in BatchInputs : _rebindings_head[n] = NodeOf(b)
          /\ InstallsOnlyFrom(_rebindings_head, last'.log)]_vars

\* the library was loaded, and its callback ran, while a second
\* registration had copied the vector but not yet set the count: the
\* callback walked with the one batch linked before
C22_Witness ==
    /\ writer.pc = "87"
    /\ writer.new_entry.rebindings = << Rb(name_f, "B", "o2") >>
    /\ writer.new_entry.rebindings_nel = -1
    /\ _rebindings_head = << NodeOf(<< Rb(name_f, "A", "o1") >>) >>
    /\ last.op = "dyld_add_image"
    /\ last.h = "lib"
    /\ mem["lib"][1] = "A"

(* ------------------------------------------------------------------ *)
(* C23: walking an image twice                                          *)
(* ------------------------------------------------------------------ *)

\* the entry point that just ran walked image h with the global registry
JustWalked(l, h) ==
    \/ l.op = "_rebind_symbols_for_image" /\ l.h = h
    \/ l.op = "dyld_add_image" /\ l.h = h /\ callbacks > 0
    \/ l.op = "rebind_symbols" /\ l.ret = 0 /\ h \in Range(loaded)

\* C23. Walk idempotence: when the add-image walk runs on an image right
\* after a walk of that image with the same global registry, it changes no
\* slot, no original_slot and no page protection: the state after the two
\* walks is the state after the first.
C23_WalkIdempotent ==
    [][(last'.op = "_rebind_symbols_for_image" /\ JustWalked(last, last'.h)) =>
          /\ mem' = mem
          /\ orig' = orig
          /\ prot' = prot
          /\ _rebindings_head' = _rebindings_head]_vars

\* the callback ran again on the main image with [{f, A, &o1}, {f, B, &o2}]
\* registered: it found A in the slot of f, stored A again, and o1 still
\* holds the loader-bound address
C23_Witness ==
    /\ last.op = "_rebind_symbols_for_image"
    /\ last.h = "main"
    /\ _rebindings_head = << NodeOf(<< Rb(name_f, "A", "o1"), Rb(name_f, "B", "o2") >>) >>
    /\ \E x \in EventsAt(last.log, "rebind", "main", 2) :
          /\ last.log[x].old = "A"
          /\ last.log[x].new = "A"
    /\ EventsAt(last.log, "capture", "main", 2) = {}
    /\ mem["main"][2] = "A"
    /\ orig["o1"] = "real_f"

(* ------------------------------------------------------------------ *)
(* C24: the captured original when another image is loaded              *)
(* ------------------------------------------------------------------ *)

\* rebind_symbols([rA]) and then rebind_symbols([rB]) have completed, for one
\* symbol and with variables of their own, and origB holds A
C24_Chained(rA, rB) ==
    /\ _rebindings_head = << NodeOf(<< rB >>), NodeOf(<< rA >>) >>
    /\ rA.name = rB.name
    /\ rA.replacement # rB.replacement
    /\ rA.replaced # NULL
    /\ rB.replaced \notin {NULL, rA.replaced}
    /\ orig[rB.replaced] = rA.replacement

\* C24. Captured original is stable across image loads: after
\* rebind_symbols([{S, A, &origA}]) and then rebind_symbols([{S, B, &origB}])
\* have completed with origB == A, the add-image callback for a newly loaded
\* image that imports S leaves origB == A.
C24_CapturedOriginalStable ==
    [][\A rA, rB \in Singles :
          (/\ C24_Chained(rA, rB)
           /\ last'.op = "dyld_add_image"
           /\ SlotsBoundTo(last'.h, rB.name) # {}) =>
              orig'[rB.replaced] = rA.replacement]_vars

====
